---- MODULE Spec2Model ----
(***************************************************************************)
(* Model of Streamlite/main.py: the EAQI dashboard's data pipeline.        *)
(*                                                                         *)
(* Strings that the program transforms (column names, country codes) are   *)
(* sequences of one-character strings, so that strip(), upper(), lower()   *)
(* and replace() are computed character by character.  Table cells are     *)
(* records [t, a, b, s]: t is the cell's kind, a/b a rational number       *)
(* (b > 0) or a calendar day and an hour, s the characters of a string.    *)
(***************************************************************************)
EXTENDS Integers, Sequences, FiniteSets, TLC

VARIABLES
    tier,         \* classification trial: the value, its label and its color
    cn,           \* country lookup trial: two raw codes and their names
    file_df,      \* the first sheet of the backing file, as pd.read_excel reads it
    file_exists,  \* os.path.exists(xlsx_path) in the current execution
    cache,        \* st.cache_data's entry for load_excel_local(xlsx_path)
    reads,        \* how many times load_excel_local's body has run
    run,          \* number of the current execution of the script
    pc,           \* where the current execution stands
    df_raw, df, df_day, points,   \* the script's tables, absent until assigned
    sel,          \* selected_date and selected_countries
    error,        \* the ValueError prepare raised
    hist          \* history: the steps of this execution, each stage's argument
                  \* before and after its call, the first table
                  \* load_excel_local returned, how often prepare has returned

\* ------------------------------------------------------------ bounds
\* Largest denominator of the AQI values the classification is tried on.
MaxDen == 2
\* Longest raw country code the country lookup is tried on.
MaxCodeLen == 3
\* Most rows of the backing file.
MaxRows == 3
\* Most executions of the script in one process.
MaxRuns == 2

\* ------------------------------------------------------------ CONFIG (main.py 15-23)
GOOD_MAX == 40
MEDIUM_MAX == 80
COLOR_GOOD == "#0078FF"
COLOR_MED == "#FFA500"
COLOR_BAD == "#DC143C"
COLOR_UNKNOWN == "#A0A0A0"

\* ------------------------------------------------------------ cells
Cell(t, a, b, s) == [t |-> t, a |-> a, b |-> b, s |-> s]
\* None / float NaN / NaT: everything pd.isna answers True for.
NaN == Cell("nan", 0, 1, <<>>)
\* The number n/d, d > 0.
Num(n, d) == Cell("num", n, d, <<>>)
\* A Python str.
StrC(s) == Cell("str", 0, 1, s)
\* A Timestamp: calendar day (yyyymmdd) and hour of the day.
Ts(day, hour) == Cell("ts", day, hour, <<>>)
\* A datetime.date: calendar day (yyyymmdd).
DateC(day) == Cell("date", day, 0, <<>>)

isna(v) == v.t = "nan"

\* v <= k for a numeric cell v = a/b and an integer k.
NumLeq(v, k) == v.a <= k * v.b
NumLt(v, k) == v.a < k * v.b

\* ------------------------------------------------------------ str methods
LowerLetters == <<"a","b","c","d","e","f","g","h","i","j","k","l","m",
                  "n","o","p","q","r","s","t","u","v","w","x","y","z">>
UpperLetters == <<"A","B","C","D","E","F","G","H","I","J","K","L","M",
                  "N","O","P","Q","R","S","T","U","V","W","X","Y","Z">>
Whitespace == {" ", "\t", "\n", "\r"}

UpperChar(c) ==
    IF \E i \in 1..Len(LowerLetters) : LowerLetters[i] = c
    THEN UpperLetters[CHOOSE i \in 1..Len(LowerLetters) : LowerLetters[i] = c]
    ELSE c

LowerChar(c) ==
    IF \E i \in 1..Len(UpperLetters) : UpperLetters[i] = c
    THEN LowerLetters[CHOOSE i \in 1..Len(UpperLetters) : UpperLetters[i] = c]
    ELSE c

\* str.upper(), str.lower() on ASCII text.
upper(s) == [i \in 1..Len(s) |-> UpperChar(s[i])]
lower(s) == [i \in 1..Len(s) |-> LowerChar(s[i])]

RECURSIVE lstrip(_)
lstrip(s) == IF s # <<>> /\ Head(s) \in Whitespace THEN lstrip(Tail(s)) ELSE s

RECURSIVE rstrip(_)
rstrip(s) ==
    IF s # <<>> /\ s[Len(s)] \in Whitespace
    THEN rstrip(SubSeq(s, 1, Len(s) - 1))
    ELSE s

\* str.strip()
strip(s) == rstrip(lstrip(s))

\* str.replace(old, new) for one-character old and new.
replace(s, old, new) == [i \in 1..Len(s) |-> IF s[i] = old THEN new ELSE s[i]]

\* ------------------------------------------------------------ country names
ISO2_TO_COUNTRY_FR ==
       (<<"A","L">> :> <<"A","l","b","a","n","i","e">>)
    @@ (<<"A","T">> :> <<"A","u","t","r","i","c","h","e">>)
    @@ (<<"B","A">> :> <<"B","o","s","n","i","e","-","H","e","r","z","é","g","o","v","i","n","e">>)
    @@ (<<"B","E">> :> <<"B","e","l","g","i","q","u","e">>)
    @@ (<<"B","G">> :> <<"B","u","l","g","a","r","i","e">>)
    @@ (<<"C","H">> :> <<"S","u","i","s","s","e">>)
    @@ (<<"C","Z">> :> <<"T","c","h","é","q","u","i","e">>)
    @@ (<<"D","E">> :> <<"A","l","l","e","m","a","g","n","e">>)
    @@ (<<"D","K">> :> <<"D","a","n","e","m","a","r","k">>)
    @@ (<<"E","E">> :> <<"E","s","t","o","n","i","e">>)
    @@ (<<"E","S">> :> <<"E","s","p","a","g","n","e">>)
    @@ (<<"F","I">> :> <<"F","i","n","l","a","n","d","e">>)
    @@ (<<"F","R">> :> <<"F","r","a","n","c","e">>)
    @@ (<<"G","B">> :> <<"R","o","y","a","u","m","e","-","U","n","i">>)
    @@ (<<"G","R">> :> <<"G","r","è","c","e">>)
    @@ (<<"H","R">> :> <<"C","r","o","a","t","i","e">>)
    @@ (<<"H","U">> :> <<"H","o","n","g","r","i","e">>)
    @@ (<<"I","E">> :> <<"I","r","l","a","n","d","e">>)
    @@ (<<"I","S">> :> <<"I","s","l","a","n","d","e">>)
    @@ (<<"I","T">> :> <<"I","t","a","l","i","e">>)
    @@ (<<"L","T">> :> <<"L","i","t","u","a","n","i","e">>)
    @@ (<<"L","U">> :> <<"L","u","x","e","m","b","o","u","r","g">>)
    @@ (<<"L","V">> :> <<"L","e","t","t","o","n","i","e">>)
    @@ (<<"M","D">> :> <<"M","o","l","d","a","v","i","e">>)
    @@ (<<"M","E">> :> <<"M","o","n","t","é","n","é","g","r","o">>)
    @@ (<<"M","K">> :> <<"M","a","c","é","d","o","i","n","e"," ","d","u"," ","N","o","r","d">>)
    @@ (<<"M","T">> :> <<"M","a","l","t","e">>)
    @@ (<<"N","L">> :> <<"P","a","y","s","-","B","a","s">>)
    @@ (<<"N","O">> :> <<"N","o","r","v","è","g","e">>)
    @@ (<<"P","L">> :> <<"P","o","l","o","g","n","e">>)
    @@ (<<"P","T">> :> <<"P","o","r","t","u","g","a","l">>)
    @@ (<<"R","O">> :> <<"R","o","u","m","a","n","i","e">>)
    @@ (<<"R","S">> :> <<"S","e","r","b","i","e">>)
    @@ (<<"S","E">> :> <<"S","u","è","d","e">>)
    @@ (<<"S","I">> :> <<"S","l","o","v","é","n","i","e">>)
    @@ (<<"S","K">> :> <<"S","l","o","v","a","q","u","i","e">>)
    @@ (<<"U","A">> :> <<"U","k","r","a","i","n","e">>)

Inconnu == <<"I","n","c","o","n","n","u">>

\* dict.get(c, c)
DictGet(d, k, default) == IF k \in DOMAIN d THEN d[k] ELSE default

\* Faulty variant: the code is upper-cased but not trimmed.
country_name_nostrip(code) ==
    IF code.t # "str" THEN Inconnu
    ELSE DictGet(ISO2_TO_COUNTRY_FR, upper(code.s), upper(code.s))

\* country_name(code): code is a cell (a str, or anything else).
country_name(code) ==
    IF code.t # "str" THEN Inconnu
    ELSE LET c == upper(strip(code.s))
         IN  DictGet(ISO2_TO_COUNTRY_FR, c, c)

\* ------------------------------------------------------------ classification
\* Faulty variant: the Good threshold excludes its upper bound (v < GOOD_MAX).
eaqi_label_strict(v) ==
    IF isna(v) THEN "Inconnu"
    ELSE IF NumLt(v, GOOD_MAX) THEN "Bon"
    ELSE IF NumLeq(v, MEDIUM_MAX) THEN "Moyen"
    ELSE "Mauvais"

eaqi_label(v) ==
    IF isna(v) THEN "Inconnu"
    ELSE IF NumLeq(v, GOOD_MAX) THEN "Bon"
    ELSE IF NumLeq(v, MEDIUM_MAX) THEN "Moyen"
    ELSE "Mauvais"

\* Faulty variant: the Medium color excludes its upper bound (v < MEDIUM_MAX).
eaqi_color_strict(v) ==
    IF isna(v) THEN COLOR_UNKNOWN
    ELSE IF NumLeq(v, GOOD_MAX) THEN COLOR_GOOD
    ELSE IF NumLt(v, MEDIUM_MAX) THEN COLOR_MED
    ELSE COLOR_BAD

eaqi_color(v) ==
    IF isna(v) THEN COLOR_UNKNOWN
    ELSE IF NumLeq(v, GOOD_MAX) THEN COLOR_GOOD
    ELSE IF NumLeq(v, MEDIUM_MAX) THEN COLOR_MED
    ELSE COLOR_BAD
\* Column names prepare() and city_means_for_day() use (main.py 153-177).
s_city == <<"c","i","t","y">>
s_country == <<"c","o","u","n","t","r","y">>
s_date == <<"d","a","t","e">>
s_latitude == <<"l","a","t","i","t","u","d","e">>
s_longitude == <<"l","o","n","g","i","t","u","d","e">>
s_european_aqi == <<"e","u","r","o","p","e","a","n","_","a","q","i">>
s_country_name == <<"c","o","u","n","t","r","y","_","n","a","m","e">>
\* Sample texts the inputs are built from.
h_City == <<" ","C","i","t","y">>
h_COUNTRY == <<"C","O","U","N","T","R","Y">>
h_Date == <<"D","a","t","e"," ">>
h_Latitude == <<"L","a","t","i","t","u","d","e">>
h_LONGITUDE == <<"L","O","N","G","I","T","U","D","E">>
h_European_AQI == <<"E","u","r","o","p","e","a","n"," ","A","Q","I">>
h_Country_Name == <<"C","o","u","n","t","r","y"," ","N","a","m","e">>
h_pm10 == <<"p","m","1","0">>
h_csv == <<"c","i","t","y",",","c","o","u","n","t","r","y",",","d","a","t","e",",","l","a","t","i","t","u","d","e",",","l","o","n","g","i","t","u","d","e",",","e","u","r","o","p","e","a","n","_","a","q","i">>
h_csv_caps == <<"C","i","t","y",",","C","o","u","n","t","r","y",",","D","a","t","e",",","L","a","t","i","t","u","d","e",",","L","o","n","g","i","t","u","d","e",",","E","u","r","o","p","e","a","n"," ","A","Q","I">>
t_Lyon == <<"L","y","o","n">>
t_Wien == <<"W","i","e","n">>
t_Oslo == <<"O","s","l","o">>
t_Bern == <<"B","e","r","n">>
t_Rome == <<"R","o","m","e">>
t_Kyiv == <<"K","y","i","v">>
t_FR == <<"F","R">>
t_fr == <<" ","f","r">>
t_AT == <<"A","T">>
t_zz == <<"z","z">>
t_IT == <<"I","T">>
t_UA == <<"U","A">>
t_day1 == <<"2","0","2","4","-","0","1","-","0","1">>
t_day2 == <<"2","0","2","4","-","0","1","-","0","2">>
t_badday == <<"2","0","2","4","-","0","2","-","3","0">>
t_NA == <<"N","/","A">>
t_45 == <<"4","5">>
t_80 == <<"8","0">>
t_x == <<"x">>
l_paris == <<"P","a","r","i","s",",","F","R",",","2","0","2","4","-","0","1","-","0","1",",","4","8",".","8","5",",","2",".","3","5",",","4","2">>
l_paris2 == <<"P","a","r","i","s",",","F","R",",","2","0","2","4","-","0","1","-","0","1",",","4","8",".","8","5",",","2",".","3","5",",","3","9">>
l_wien == <<"W","i","e","n",",","A","T",",","2","0","2","4","-","0","1","-","0","2",",","4","8",",","1","6",",","8","1">>
l_bad == <<"O","s","l","o",",","N","O",",","2","0","2","4","-","0","1","-","0","1",",","N","/","A",",","1","0",",","2","0">>
l_short == <<"B","e","r","n",",","C","H">>

\* ------------------------------------------------------------ parsing
Digits == <<"0","1","2","3","4","5","6","7","8","9">>
IsDigit(c) == \E i \in 1..Len(Digits) : Digits[i] = c
DigitVal(c) == (CHOOSE i \in 1..Len(Digits) : Digits[i] = c) - 1
AllDigits(s) == s # <<>> /\ \A i \in 1..Len(s) : IsDigit(s[i])

RECURSIVE DecimalVal(_)
DecimalVal(s) ==
    IF s = <<>> THEN 0
    ELSE 10 * DecimalVal(SubSeq(s, 1, Len(s) - 1)) + DigitVal(s[Len(s)])

RECURSIVE Pow10(_)
Pow10(k) == IF k = 0 THEN 1 ELSE 10 * Pow10(k - 1)

FirstIndex(s, c) == CHOOSE i \in 1..Len(s) : s[i] = c /\ \A j \in 1..(i - 1) : s[j] # c
Contains(s, c) == \E i \in 1..Len(s) : s[i] = c

\* An unsigned decimal numeral: digits, or digits "." digits.
IsUnsigned(s) ==
    IF Contains(s, ".")
    THEN LET i == FirstIndex(s, ".")
         IN  AllDigits(SubSeq(s, 1, i - 1)) /\ AllDigits(SubSeq(s, i + 1, Len(s)))
    ELSE AllDigits(s)

UnsignedVal(s) ==
    IF Contains(s, ".")
    THEN LET i == FirstIndex(s, ".")
             frac == SubSeq(s, i + 1, Len(s))
         IN  Num(DecimalVal(SubSeq(s, 1, i - 1)) * Pow10(Len(frac)) + DecimalVal(frac),
                 Pow10(Len(frac)))
    ELSE Num(DecimalVal(s), 1)

\* The text of a number: an optional "-" and an unsigned decimal numeral.
IsNumeral(s) ==
    IF s # <<>> /\ Head(s) = "-" THEN IsUnsigned(Tail(s)) ELSE IsUnsigned(s)

NumeralVal(s) ==
    IF Head(s) = "-"
    THEN LET u == UnsignedVal(Tail(s)) IN Num(0 - u.a, u.b)
    ELSE UnsignedVal(s)

\* pd.to_numeric(column, errors="coerce"), one cell: a number stays, the text
\* of a number is parsed, any other text and an absent cell become NaN.
to_numeric(c) ==
    CASE c.t = "num" -> c
      [] c.t = "nan" -> NaN
      [] c.t = "str" -> IF IsNumeral(c.s) THEN NumeralVal(c.s) ELSE NaN

IsLeap(y) == (y % 4 = 0 /\ y % 100 # 0) \/ y % 400 = 0
DaysInMonth(y, m) ==
    IF m = 2 THEN (IF IsLeap(y) THEN 29 ELSE 28)
    ELSE IF m \in {4, 6, 9, 11} THEN 30 ELSE 31

\* An ISO calendar date YYYY-MM-DD that exists.
IsIsoDate(s) ==
    /\ Len(s) = 10
    /\ s[5] = "-" /\ s[8] = "-"
    /\ AllDigits(SubSeq(s, 1, 4)) /\ AllDigits(SubSeq(s, 6, 7)) /\ AllDigits(SubSeq(s, 9, 10))
    /\ LET y == DecimalVal(SubSeq(s, 1, 4))
           m == DecimalVal(SubSeq(s, 6, 7))
           d == DecimalVal(SubSeq(s, 9, 10))
       IN  y >= 1 /\ m \in 1..12 /\ d \in 1..DaysInMonth(y, m)

IsoDateVal(s) ==
    DecimalVal(SubSeq(s, 1, 4)) * 10000 + DecimalVal(SubSeq(s, 6, 7)) * 100
        + DecimalVal(SubSeq(s, 9, 10))

\* pd.to_datetime(column, errors="coerce").dt.date, one cell: a Timestamp loses
\* its time of day, the text of an ISO date is parsed, any other text and an
\* absent cell become NaT.
to_date(c) ==
    CASE c.t = "ts" -> DateC(c.a)
      [] c.t = "date" -> c
      [] c.t = "nan" -> NaN
      [] c.t = "str" -> IF IsIsoDate(c.s) THEN DateC(IsoDateVal(c.s)) ELSE NaN

\* ------------------------------------------------------------ DataFrame
\* A DataFrame: its column labels and its rows, each row a cell per column.
\* Column labels are distinct in every table the model builds.
DataFrame(cols, rows) == [cols |-> cols, rows |-> rows]

Range(s) == {s[i] : i \in 1..Len(s)}
HasCol(d, name) == \E i \in 1..Len(d.cols) : d.cols[i] = name
ColIdx(d, name) == CHOOSE i \in 1..Len(d.cols) : d.cols[i] = name
\* row[name] for a row of d
At(d, row, name) == row[ColIdx(d, name)]

\* df[name]: the column's cells, row by row.
Series(d, name) == [r \in 1..Len(d.rows) |-> At(d, d.rows[r], name)]

\* df[name] = values: an existing column is overwritten in its place, a new
\* one is appended.
Assign(d, name, values) ==
    IF HasCol(d, name)
    THEN DataFrame(d.cols,
             [r \in 1..Len(d.rows) |-> [d.rows[r] EXCEPT ![ColIdx(d, name)] = values[r]]])
    ELSE DataFrame(Append(d.cols, name),
             [r \in 1..Len(d.rows) |-> Append(d.rows[r], values[r])])

\* df.dropna(subset=...): the rows with no absent cell in the subset's columns.
dropna(d, subset) ==
    LET keep(row) == \A name \in subset : ~isna(At(d, row, name))
    IN  DataFrame(d.cols, SelectSeq(d.rows, keep))

\* df[df[name] == value]
WhereEq(d, name, value) ==
    LET keep(row) == At(d, row, name) = value
    IN  DataFrame(d.cols, SelectSeq(d.rows, keep))

\* df[df[name].isin(values)] for a text column
WhereIn(d, name, values) ==
    LET keep(row) == At(d, row, name).s \in values
    IN  DataFrame(d.cols, SelectSeq(d.rows, keep))

\* ------------------------------------------------------------ sorting
\* Code-point order of the characters column names are made of.
CharOrder == <<"0","1","2","3","4","5","6","7","8","9",
               "_","a","b","c","d","e","f","g","h","i","j","k","l","m",
               "n","o","p","q","r","s","t","u","v","w","x","y","z">>
Ord(c) == CHOOSE i \in 1..Len(CharOrder) : CharOrder[i] = c

\* s < t for Python strs: the first differing character decides, a proper
\* prefix is smaller.
RECURSIVE StrLess(_, _)
StrLess(s, t) ==
    IF t = <<>> THEN FALSE
    ELSE IF s = <<>> THEN TRUE
    ELSE IF Head(s) = Head(t) THEN StrLess(Tail(s), Tail(t))
    ELSE Ord(Head(s)) < Ord(Head(t))

\* sorted(S) for a set of strs
RECURSIVE sorted(_)
sorted(S) ==
    IF S = {} THEN <<>>
    ELSE LET m == CHOOSE x \in S : \A y \in S \ {x} : StrLess(x, y)
         IN  <<m>> \o sorted(S \ {m})

\* sorted(S) for a set of datetime.date cells
RECURSIVE sorted_dates(_)
sorted_dates(S) ==
    IF S = {} THEN <<>>
    ELSE LET m == CHOOSE x \in S : \A y \in S : x.a <= y.a
         IN  <<m>> \o sorted_dates(S \ {m})

\* ------------------------------------------------------------ normalize_columns
\* [str(c).strip().lower().replace(" ", "_") for c in df.columns]
normalize_columns(d) ==
    DataFrame([i \in 1..Len(d.cols) |-> replace(lower(strip(d.cols[i])), " ", "_")],
              d.rows)

\* ------------------------------------------------------------ fix_single_column_csv_like
RECURSIVE Split(_, _)
Split(s, sep) ==
    IF ~Contains(s, sep) THEN <<s>>
    ELSE LET i == FirstIndex(s, sep)
         IN  <<SubSeq(s, 1, i - 1)>> \o Split(SubSeq(s, i + 1, Len(s)), sep)

RECURSIVE Join(_, _)
Join(parts, sep) ==
    IF parts = <<>> THEN <<>>
    ELSE IF Len(parts) = 1 THEN parts[1]
    ELSE parts[1] \o <<sep>> \o Join(Tail(parts), sep)

\* Series.astype(str), one cell of a column of texts and absent cells.
astype_str(c) ==
    CASE c.t = "str" -> c.s
      [] c.t = "nan" -> <<"n","a","n">>

\* Some of the texts pd.read_csv reads as absent by default.
NaTexts == { <<>>, <<"N","/","A">>, <<"N","A">>, <<"n","a","n">>, <<"N","a","N">>,
             <<"n","/","a">>, <<"N","U","L","L">>, <<"n","u","l","l">>,
             <<"N","o","n","e">>, <<"#","N","/","A">> }

\* pd.read_csv(io.StringIO(text)) for text without quotes whose lines hold no
\* more fields than the first: the first line names the columns, blank lines
\* are skipped, short lines are filled with absent cells, and a column whose
\* present fields are all numerals becomes numeric.
read_csv(text) ==
    LET nonblank(l) == l # <<>>
        lines  == SelectSeq(Split(text, "\n"), nonblank)
        names  == Split(lines[1], ",")
        data   == [r \in 1..(Len(lines) - 1) |-> Split(lines[r + 1], ",")]
        field(r, j) == IF j <= Len(data[r]) THEN data[r][j] ELSE <<>>
        numeric(j) == \A r \in 1..Len(data) :
                         field(r, j) \in NaTexts \/ IsNumeral(field(r, j))
        cell(r, j) == IF field(r, j) \in NaTexts THEN NaN
                      ELSE IF numeric(j) THEN NumeralVal(field(r, j))
                      ELSE StrC(field(r, j))
    IN  DataFrame(names,
                  [r \in 1..Len(data) |-> [j \in 1..Len(names) |-> cell(r, j)]])

fix_single_column_csv_like(d) ==
    IF Len(d.cols) # 1 THEN d
    ELSE LET header == d.cols[1]
         IN  IF ~Contains(header, ",") THEN d
             ELSE LET lines == <<header>> \o
                               [r \in 1..Len(d.rows) |-> astype_str(d.rows[r][1])]
                  IN  read_csv(Join(lines, "\n"))

\* ------------------------------------------------------------ prepare
needed == {s_city, s_country, s_date, s_latitude, s_longitude, s_european_aqi}

\* Faulty variant: the symmetric difference, needed ^ set(df.columns).
missing_columns_symdiff(d) == (needed \ Range(d.cols)) \cup (Range(d.cols) \ needed)

\* needed - set(df.columns)
missing_columns(d) == needed \ Range(d.cols)

\* The ValueError's two lists: sorted(missing) and list(df.columns).
schema_error(d) == [missing |-> sorted(missing_columns(d)), found |-> d.cols]

\* Series.apply(country_name)
apply_country_name(col) == [r \in 1..Len(col) |-> StrC(country_name(col[r]))]
\* pd.to_datetime(col, errors="coerce").dt.date
to_datetime_date(col) == [r \in 1..Len(col) |-> to_date(col[r])]
\* pd.to_numeric(col, errors="coerce")
to_numeric_col(col) == [r \in 1..Len(col) |-> to_numeric(col[r])]

\* Lines 160-165: what prepare's assignments make of the frame it was given.
prepare_assign(d) ==
    LET d1 == Assign(d, s_date, to_datetime_date(Series(d, s_date)))
        d2 == Assign(d1, s_latitude, to_numeric_col(Series(d1, s_latitude)))
        d3 == Assign(d2, s_longitude, to_numeric_col(Series(d2, s_longitude)))
        d4 == Assign(d3, s_european_aqi, to_numeric_col(Series(d3, s_european_aqi)))
    IN  Assign(d4, s_country_name, apply_country_name(Series(d4, s_country)))

dropna_subset == {s_date, s_latitude, s_longitude, s_european_aqi, s_city, s_country}

\* Faulty variant: an absent city does not drop the row.
prepare_drop_nocity(d) == dropna(d, dropna_subset \ {s_city})

\* Line 167: the frame prepare returns, from the assigned frame.
prepare_drop(d) == dropna(d, dropna_subset)

\* ------------------------------------------------------------ city_means_for_day
group_columns == <<s_city, s_country, s_country_name, s_latitude, s_longitude>>

\* Equality of two cells as group keys: numbers by value.
CellEq(x, y) ==
    IF x.t = "num" /\ y.t = "num" THEN x.a * y.b = y.a * x.b ELSE x = y

KeyOf(d, row) == [i \in 1..Len(group_columns) |-> At(d, row, group_columns[i])]
KeyEq(k1, k2) == \A i \in 1..Len(group_columns) : CellEq(k1[i], k2[i])

NumAdd(x, y) == Num(x.a * y.b + y.a * x.b, x.b * y.b)

\* One row joins the groups found so far: its value is added to its key's
\* group, or it opens a new group.  A row with an absent key cell joins no
\* group (groupby's dropna=True); an absent value adds nothing to the mean.
AddToGroups(groups, key, v) ==
    IF \E i \in 1..Len(key) : isna(key[i]) THEN groups
    ELSE LET sum0 == IF isna(v) THEN Num(0, 1) ELSE v
             n0   == IF isna(v) THEN 0 ELSE 1
         IN  IF \E g \in 1..Len(groups) : KeyEq(groups[g].key, key)
             THEN LET g == CHOOSE g \in 1..Len(groups) : KeyEq(groups[g].key, key)
                  IN  [groups EXCEPT ![g] = [key |-> @.key,
                                             sum |-> NumAdd(@.sum, sum0),
                                             n   |-> @.n + n0]]
             ELSE Append(groups, [key |-> key, sum |-> sum0, n |-> n0])

RECURSIVE GroupRows(_, _, _)
GroupRows(d, rows, groups) ==
    IF rows = <<>> THEN groups
    ELSE GroupRows(d, Tail(rows),
                   AddToGroups(groups, KeyOf(d, Head(rows)),
                               At(d, Head(rows), s_european_aqi)))

\* Faulty variant: the group's sum is reported instead of its mean.
group_mean_sum(g) == IF g.n = 0 THEN NaN ELSE g.sum

\* agg(european_aqi=("european_aqi", "mean"))
group_mean(g) == IF g.n = 0 THEN NaN ELSE Num(g.sum.a, g.sum.b * g.n)

\* The point table: one record per group, with label and color.  Its rows
\* stand in the order the groups were met (pandas orders them by key).
city_means_for_day(d) ==
    LET groups == GroupRows(d, d.rows, <<>>)
    IN  [g \in 1..Len(groups) |->
            LET m == group_mean(groups[g])
            IN  [city         |-> groups[g].key[1],
                 country      |-> groups[g].key[2],
                 country_name |-> groups[g].key[3],
                 latitude     |-> groups[g].key[4],
                 longitude    |-> groups[g].key[5],
                 european_aqi |-> m,
                 label        |-> eaqi_label(m),
                 color        |-> eaqi_color(m)]]

\* ------------------------------------------------------------ the script
None == <<>>
Some(x) == <<x>>

\* st.cache_data keeps a serialized copy of the returned table and hands out
\* a fresh copy per call: writing to a returned table leaves the entry as it
\* was.  entry: the cache entry; written: the returned table after the write.
\* Faulty variant: the returned table is the cached object itself.
cached_entry_shared(entry, written) == IF entry = None THEN None ELSE Some(written)

cached_entry_after_write(entry, written) == entry

\* Faulty variant: the rows of every day.
day_rows_all(d, date) == d

\* df[df["date"] == selected_date].copy()
day_rows(d, date) == WhereEq(d, s_date, date)

\* sorted(df["date"].unique())
dates(d) == sorted_dates({At(d, d.rows[r], s_date) : r \in 1..Len(d.rows)})

\* What st.selectbox can return: one of the options, or None when there is none.
date_options(d) == IF dates(d) = <<>> THEN {NaN} ELSE Range(dates(d))

\* The options of the country multiselect (shown sorted).
countries(d) == {At(d, d.rows[r], s_country_name).s : r \in 1..Len(d.rows)}

NoCalls == [normalize |-> None, prepare |-> None, aggregate |-> None]
Call(before, after) == Some([before |-> before, after |-> after])

Terminal == {"stopped", "schema_error", "done"}

\* Lines 186-189: without the file the execution stops here.
\* Faulty variant: the execution goes on without the file.
CheckFile_noguard ==
    /\ pc = "start"
    /\ pc' = "load"
    /\ hist' = [hist EXCEPT !.steps = Append(@, "check_file")]
    /\ UNCHANGED <<tier, cn, file_df, file_exists, cache, reads, run,
                   df_raw, df, df_day, points, sel, error>>

CheckFile ==
    /\ pc = "start"
    /\ pc' = IF file_exists THEN "load" ELSE "stopped"
    /\ hist' = [hist EXCEPT !.steps = Append(@, "check_file")]
    /\ UNCHANGED <<tier, cn, file_df, file_exists, cache, reads, run,
                   df_raw, df, df_day, points, sel, error>>

\* Line 191, no entry yet: load_excel_local's body runs.  normalize_columns
\* renames the columns of the frame it is given and returns that frame.
LoadMiss ==
    /\ pc = "load"
    /\ cache = None
    /\ LET fixed == fix_single_column_csv_like(file_df)
           out   == normalize_columns(fixed)
       IN  /\ cache' = Some(out)
           /\ df_raw' = Some(out)
           /\ hist' = [hist EXCEPT !.steps = Append(@, "load"),
                                   !.calls.normalize = Call(fixed, out),
                                   !.first = Some(out)]
    /\ reads' = reads + 1
    /\ pc' = "prepare"
    /\ UNCHANGED <<tier, cn, file_df, file_exists, run, df, df_day, points, sel, error>>

\* Line 191, entry present: a copy of the entry is returned.
LoadHit ==
    /\ pc = "load"
    /\ cache # None
    /\ df_raw' = Some(cache[1])
    /\ hist' = [hist EXCEPT !.steps = Append(@, "load")]
    /\ pc' = "prepare"
    /\ UNCHANGED <<tier, cn, file_df, file_exists, cache, reads, run,
                   df, df_day, points, sel, error>>

\* Line 198, a required column is missing: prepare raises before it assigns.
PrepareRaise ==
    /\ pc = "prepare"
    /\ missing_columns(df_raw[1]) # {}
    /\ error' = Some(schema_error(df_raw[1]))
    /\ hist' = [hist EXCEPT !.steps = Append(@, "prepare")]
    /\ pc' = "schema_error"
    /\ UNCHANGED <<tier, cn, file_df, file_exists, cache, reads, run,
                   df_raw, df, df_day, points, sel>>

\* Line 198: prepare assigns five columns of the frame it is given (df_raw)
\* and returns the frame dropna builds.
PrepareOk ==
    /\ pc = "prepare"
    /\ missing_columns(df_raw[1]) = {}
    /\ LET assigned == prepare_assign(df_raw[1])
       IN  /\ df_raw' = Some(assigned)
           /\ df' = Some(prepare_drop(assigned))
           /\ cache' = cached_entry_after_write(cache, assigned)
           /\ hist' = [hist EXCEPT !.steps = Append(@, "prepare"),
                                   !.calls.prepare = Call(df_raw[1], assigned),
                                   !.prepares = @ + 1]
    /\ pc' = "select_date"
    /\ UNCHANGED <<tier, cn, file_df, file_exists, reads, run, df_day, points, sel, error>>

\* Lines 201-206: the day is chosen and its rows are copied.
SelectDate ==
    /\ pc = "select_date"
    /\ \E d \in date_options(df[1]) :
          /\ sel' = [sel EXCEPT !.date = d]
          /\ df_day' = Some(day_rows(df[1], d))
    /\ hist' = [hist EXCEPT !.steps = Append(@, "select_date")]
    /\ pc' = "select_countries"
    /\ UNCHANGED <<tier, cn, file_df, file_exists, cache, reads, run,
                   df_raw, df, points, error>>

\* Lines 208-213: the countries are chosen among the day's; a non-empty
\* choice restricts the day's rows.
SelectCountries ==
    /\ pc = "select_countries"
    /\ \E F \in SUBSET countries(df_day[1]) :
          /\ sel' = [sel EXCEPT !.countries = F]
          /\ df_day' = IF F # {} THEN Some(WhereIn(df_day[1], s_country_name, F))
                       ELSE df_day
    /\ hist' = [hist EXCEPT !.steps = Append(@, "select_countries")]
    /\ pc' = "aggregate"
    /\ UNCHANGED <<tier, cn, file_df, file_exists, cache, reads, run,
                   df_raw, df, points, error>>

\* Line 215
Aggregate ==
    /\ pc = "aggregate"
    /\ points' = Some(city_means_for_day(df_day[1]))
    /\ hist' = [hist EXCEPT !.steps = Append(@, "aggregate"),
                            !.calls.aggregate = Call(df_day[1], df_day[1])]
    /\ pc' = "done"
    /\ UNCHANGED <<tier, cn, file_df, file_exists, cache, reads, run,
                   df_raw, df, df_day, sel, error>>

NoSelection == [date |-> NaN, countries |-> {}]

\* A widget changes: the host runs the script again from the top, in the same
\* process; the file may have appeared or gone meanwhile.
Rerun ==
    /\ pc \in Terminal
    /\ run < MaxRuns
    /\ run' = run + 1
    /\ pc' = "start"
    /\ file_exists' \in BOOLEAN
    /\ df_raw' = None /\ df' = None /\ df_day' = None /\ points' = None
    /\ error' = None
    /\ sel' = NoSelection
    /\ hist' = [hist EXCEPT !.steps = <<>>, !.calls = NoCalls]
    /\ UNCHANGED <<tier, cn, file_df, cache, reads>>

\* ------------------------------------------------------------ inputs
Day1 == IsoDateVal(t_day1)
Day2 == IsoDateVal(t_day2)

Row(city, country, date, latitude, longitude, european_aqi) ==
    [city |-> city, country |-> country, date |-> date, latitude |-> latitude,
     longitude |-> longitude, european_aqi |-> european_aqi, extra |-> Num(7, 1)]

\* Sample rows: complete ones sharing a key, a key differing only in the raw
\* country code, a second day, a country that is no str, and rows with an
\* unparseable or absent cell in each required column.
RowChoices == <<
    Row(StrC(t_Lyon), StrC(t_FR), Ts(Day1, 0), Num(45, 1), Num(4, 1), Num(30, 1)),
    Row(StrC(t_Lyon), StrC(t_FR), Ts(Day1, 12), StrC(t_45), Num(4, 1), Num(50, 1)),
    Row(StrC(t_Lyon), StrC(t_FR), StrC(t_day1), Num(45, 1), Num(4, 1), Num(41, 1)),
    Row(StrC(t_Lyon), StrC(t_fr), Ts(Day1, 0), Num(45, 1), Num(4, 1), Num(90, 1)),
    Row(StrC(t_Wien), StrC(t_AT), StrC(t_day2), Num(48, 1), Num(16, 1), Num(81, 1)),
    Row(StrC(t_Rome), Num(5, 1), Ts(Day2, 0), Num(41, 1), Num(12, 1), StrC(t_80)),
    Row(StrC(t_Oslo), StrC(t_zz), Ts(Day1, 0), StrC(t_NA), Num(10, 1), Num(20, 1)),
    Row(StrC(t_Bern), NaN, Ts(Day1, 0), Num(46, 1), Num(7, 1), Num(10, 1)),
    Row(NaN, StrC(t_IT), Ts(Day2, 0), Num(41, 1), Num(12, 1), Num(10, 1)),
    Row(StrC(t_Kyiv), StrC(t_UA), StrC(t_badday), Num(50, 1), StrC(t_x), NaN) >>

Column(name, field) == [name |-> name, field |-> field]

\* Sample headers: canonical, to be normalized, with further columns (one of
\* them named like the derived column), and lacking required columns.
HeaderChoices == {
    << Column(s_city, "city"), Column(s_country, "country"), Column(s_date, "date"),
       Column(s_latitude, "latitude"), Column(s_longitude, "longitude"),
       Column(s_european_aqi, "european_aqi") >>,
    << Column(h_Date, "date"), Column(h_City, "city"), Column(h_COUNTRY, "country"),
       Column(h_Latitude, "latitude"), Column(h_LONGITUDE, "longitude"),
       Column(h_European_AQI, "european_aqi") >>,
    << Column(s_city, "city"), Column(h_Country_Name, "extra"), Column(s_country, "country"),
       Column(s_date, "date"), Column(s_latitude, "latitude"),
       Column(s_longitude, "longitude"), Column(s_european_aqi, "european_aqi"),
       Column(h_pm10, "extra") >>,
    << Column(s_city, "city"), Column(s_country, "country"), Column(s_date, "date"),
       Column(s_longitude, "longitude"), Column(s_european_aqi, "european_aqi") >>,
    << Column(h_pm10, "extra"), Column(s_country, "country"), Column(s_date, "date"),
       Column(s_longitude, "longitude"), Column(s_european_aqi, "european_aqi") >>,
    << Column(s_city, "city"), Column(s_country, "country"), Column(s_date, "date"),
       Column(s_latitude, "latitude"), Column(s_longitude, "longitude"),
       Column(h_pm10, "extra") >> }

\* The sequences of at most n indices into 1..k, in non-decreasing order.
Picks(k, n) ==
    { p \in UNION {[1..m -> 1..k] : m \in 0..n} :
        \A i \in 1..Len(p) : \A j \in i..Len(p) : p[i] <= p[j] }

ExcelFiles ==
    { DataFrame([i \in 1..Len(h) |-> h[i].name],
                [r \in 1..Len(p) |-> [i \in 1..Len(h) |-> RowChoices[p[r]][h[i].field]]]) :
        h \in HeaderChoices, p \in Picks(Len(RowChoices), MaxRows) }

\* Sheets holding one column whose header and cells are comma-separated text.
CsvLineChoices == << StrC(l_paris), StrC(l_paris2), StrC(l_wien), StrC(l_bad),
                     StrC(l_short), NaN >>

CsvFiles ==
    { DataFrame(<<h>>, [r \in 1..Len(p) |-> <<CsvLineChoices[p[r]]>>]) :
        h \in {h_csv, h_csv_caps}, p \in Picks(Len(CsvLineChoices), MaxRows) }

\* ------------------------------------------------------------ script specification
EmptyFrame == DataFrame(<<>>, <<>>)
TierIdle == [v |-> NaN, label |-> "", color |-> "", step |-> 0]
CnIdle == [a |-> NaN, b |-> NaN, ra |-> <<>>, rb |-> <<>>, done |-> FALSE]

vars == <<tier, cn, file_df, file_exists, cache, reads, run, pc,
          df_raw, df, df_day, points, sel, error, hist>>

ScriptFresh ==
    /\ cache = None
    /\ reads = 0
    /\ run = 1
    /\ pc = "start"
    /\ df_raw = None /\ df = None /\ df_day = None /\ points = None
    /\ sel = NoSelection
    /\ error = None
    /\ hist = [steps |-> <<>>, calls |-> NoCalls, first |-> None, prepares |-> 0]

Init ==
    /\ tier = TierIdle
    /\ cn = CnIdle
    /\ file_df \in ExcelFiles \cup CsvFiles
    /\ file_exists \in BOOLEAN
    /\ ScriptFresh

Next ==
    \/ CheckFile
    \/ LoadMiss
    \/ LoadHit
    \/ PrepareRaise
    \/ PrepareOk
    \/ SelectDate
    \/ SelectCountries
    \/ Aggregate
    \/ Rerun

Spec == Init /\ [][Next]_vars

\* ------------------------------------------------------------ classification trials
AqiInputs ==
    {NaN} \cup { Num(n, d) : n \in (0 - MaxDen)..((MEDIUM_MAX + 1) * MaxDen + 1),
                            d \in 1..MaxDen }

ScriptIdle ==
    /\ file_df = EmptyFrame
    /\ file_exists = FALSE
    /\ ScriptFresh

TierLabel ==
    /\ tier.step = 0
    /\ tier' = [tier EXCEPT !.label = eaqi_label(tier.v), !.step = 1]
    /\ UNCHANGED <<cn, file_df, file_exists, cache, reads, run, pc,
                   df_raw, df, df_day, points, sel, error, hist>>

TierColor ==
    /\ tier.step = 1
    /\ tier' = [tier EXCEPT !.color = eaqi_color(tier.v), !.step = 2]
    /\ UNCHANGED <<cn, file_df, file_exists, cache, reads, run, pc,
                   df_raw, df, df_day, points, sel, error, hist>>

InitTier ==
    /\ tier \in { [v |-> v, label |-> "", color |-> "", step |-> 0] : v \in AqiInputs }
    /\ cn = CnIdle
    /\ ScriptIdle

NextTier == TierLabel \/ TierColor

SpecTier == InitTier /\ [][NextTier]_vars

\* ------------------------------------------------------------ country lookup trials
CodeAlphabet == {" ", "f", "F", "r", "z"}
VariantAlphabet == {" ", "f", "R"}

Texts(alphabet, n) == UNION { [1..k -> alphabet] : k \in 0..n }

CodeInputs ==
    {NaN, Num(5, 1)} \cup { StrC(s) : s \in Texts(CodeAlphabet, MaxCodeLen) }
VariantInputs ==
    {NaN} \cup { StrC(s) : s \in Texts(VariantAlphabet, MaxCodeLen) }

CountryName ==
    /\ ~cn.done
    /\ cn' = [cn EXCEPT !.ra = country_name(cn.a), !.rb = country_name(cn.b),
                        !.done = TRUE]
    /\ UNCHANGED <<tier, file_df, file_exists, cache, reads, run, pc,
                   df_raw, df, df_day, points, sel, error, hist>>

InitCountry ==
    /\ cn \in { [a |-> a, b |-> b, ra |-> <<>>, rb |-> <<>>, done |-> FALSE] :
                  a \in CodeInputs, b \in VariantInputs }
    /\ tier = TierIdle
    /\ ScriptIdle

NextCountry == CountryName

SpecCountry == InitCountry /\ [][NextCountry]_vars

\* ============================================================ properties
\* Helpers of the properties below, written from the statements they check.

Required == {s_city, s_country, s_date, s_latitude, s_longitude, s_european_aqi}

SetMin(S) == CHOOSE x \in S : \A y \in S : x <= y
SetMax(S) == CHOOSE x \in S : \A y \in S : y <= x

\* s without its leading and trailing whitespace.
Trimmed(s) ==
    LET inked == {i \in 1..Len(s) : s[i] \notin Whitespace}
    IN  IF inked = {} THEN <<>> ELSE SubSeq(s, SetMin(inked), SetMax(inked))

\* s and t differ at most in letter case and in surrounding blanks.
SameCode(s, t) ==
    /\ Len(Trimmed(s)) = Len(Trimmed(t))
    /\ \A i \in 1..Len(Trimmed(s)) : UpperChar(Trimmed(s)[i]) = UpperChar(Trimmed(t)[i])

\* The name the statement gives a raw country value.
NameOf(c) ==
    IF c.t # "str" THEN Inconnu
    ELSE LET code == [i \in 1..Len(Trimmed(c.s)) |-> UpperChar(Trimmed(c.s)[i])]
         IN  IF code \in DOMAIN ISO2_TO_COUNTRY_FR THEN ISO2_TO_COUNTRY_FR[code] ELSE code

\* The tier the statement gives a value: 1 Good, 2 Medium, 3 Bad, 0 Unknown.
TierOf(v) ==
    IF v.t = "nan" THEN 0
    ELSE IF v.a <= 40 * v.b THEN 1
    ELSE IF v.a <= 80 * v.b THEN 2
    ELSE 3
TierLabels == <<"Bon", "Moyen", "Mauvais">>
TierColors == <<COLOR_GOOD, COLOR_MED, COLOR_BAD>>
LabelOfTier(k) == IF k = 0 THEN "Inconnu" ELSE TierLabels[k]
ColorOfTier(k) == IF k = 0 THEN COLOR_UNKNOWN ELSE TierColors[k]

\* C1: for every AQI value, absent ones included, eaqi_label and eaqi_color
\* select the same tier (Bon with COLOR_GOOD, Moyen with COLOR_MED, Mauvais
\* with COLOR_BAD, Inconnu with COLOR_UNKNOWN), and the four colors differ.
C1_LabelColorAgree ==
    /\ Cardinality({COLOR_GOOD, COLOR_MED, COLOR_BAD, COLOR_UNKNOWN}) = 4
    /\ tier.step = 2 =>
          /\ tier.label \in {"Bon", "Moyen", "Mauvais", "Inconnu"}
          /\ tier.label = "Bon" <=> tier.color = COLOR_GOOD
          /\ tier.label = "Moyen" <=> tier.color = COLOR_MED
          /\ tier.label = "Mauvais" <=> tier.color = COLOR_BAD
          /\ tier.label = "Inconnu" <=> tier.color = COLOR_UNKNOWN

\* The value 80 exactly has been labelled Moyen and colored COLOR_MED.
C1_Witness ==
    /\ tier.step = 2
    /\ tier.v = Num(80, 1)
    /\ tier.label = "Moyen" /\ tier.color = COLOR_MED

\* C2: eaqi_label is total with inclusive upper bounds: absent -> Inconnu,
\* v <= 40 -> Bon, 40 < v <= 80 -> Moyen, v > 80 -> Mauvais.
C2_LabelThresholds ==
    tier.step >= 1 =>
        /\ tier.v.t = "nan" => tier.label = "Inconnu"
        /\ (tier.v.t = "num" /\ tier.v.a <= 40 * tier.v.b) => tier.label = "Bon"
        /\ (tier.v.t = "num" /\ tier.v.a > 40 * tier.v.b /\ tier.v.a <= 80 * tier.v.b)
              => tier.label = "Moyen"
        /\ (tier.v.t = "num" /\ tier.v.a > 80 * tier.v.b) => tier.label = "Mauvais"

\* The smallest tried value above 40 (40 + 1/MaxDen) has been labelled Moyen.
C2_Witness ==
    /\ tier.step >= 1
    /\ tier.v = Num(40 * MaxDen + 1, MaxDen)
    /\ tier.label = "Moyen"

\* The columns of the table prepare was given in this execution.
PrepareGiven ==
    IF pc = "schema_error" THEN df_raw[1] ELSE hist.calls.prepare[1].before
PrepareReturned == pc \in {"select_date", "select_countries", "aggregate", "done"}
Lacking == Required \ Range(PrepareGiven.cols)

\* C3: prepare fails with the schema error exactly when a required column is
\* missing; the error carries the sorted list of the missing required names
\* and the list of the columns present; no clean table is returned; a table
\* lacking latitude fails with latitude listed, and with ["latitude"] as the
\* whole list when nothing else is missing.
C3_SchemaError ==
    (pc = "schema_error" \/ PrepareReturned) =>
        /\ pc = "schema_error" <=> Lacking # {}
        /\ s_latitude \in Lacking => pc = "schema_error"
        /\ pc = "schema_error" =>
              /\ error # None
              /\ Range(error[1].missing) = Lacking
              /\ \A i \in 1..(Len(error[1].missing) - 1) :
                    StrLess(error[1].missing[i], error[1].missing[i + 1])
              /\ error[1].found = df_raw[1].cols
              /\ Lacking = {s_latitude} => error[1].missing = <<s_latitude>>
              /\ df = None /\ df_day = None /\ points = None
        /\ PrepareReturned => error = None /\ df # None

\* prepare has raised for a table lacking city and latitude.
C3_Witness ==
    /\ pc = "schema_error"
    /\ error # None
    /\ error[1].missing = <<s_city, s_latitude>>

\* A raw cell that parses as a number, as a date.
ParsesAsNumber(c) == c.t = "num" \/ (c.t = "str" /\ IsNumeral(c.s))
ParsesAsDate(c) == c.t \in {"ts", "date"} \/ (c.t = "str" /\ IsIsoDate(c.s))

\* C4: for a table with all required columns, a row is in prepare's output
\* exactly when, after coercion, none of date, latitude, longitude,
\* european_aqi, city, country is absent: rows with an unparseable date,
\* coordinate or AQI or an absent city or country are left out, every other
\* row is kept, and country_name, never absent, drops no row.
C4_DropRule ==
    PrepareReturned =>
        LET raw     == hist.calls.prepare[1].before
            coerced == hist.calls.prepare[1].after
            complete(row) == \A name \in Required : At(coerced, row, name).t # "nan"
            parseable(row) ==
                /\ At(raw, row, s_city).t # "nan"
                /\ At(raw, row, s_country).t # "nan"
                /\ ParsesAsDate(At(raw, row, s_date))
                /\ ParsesAsNumber(At(raw, row, s_latitude))
                /\ ParsesAsNumber(At(raw, row, s_longitude))
                /\ ParsesAsNumber(At(raw, row, s_european_aqi))
        IN  /\ Len(coerced.rows) = Len(raw.rows)
            /\ df[1].cols = coerced.cols
            /\ df[1].rows = SelectSeq(coerced.rows, complete)
            /\ \A r \in 1..Len(raw.rows) :
                  /\ complete(coerced.rows[r]) <=> parseable(raw.rows[r])
                  /\ At(coerced, coerced.rows[r], s_country_name).t = "str"

\* prepare has kept a row whose country is no str (named Inconnu) and has
\* left out another row.
C4_Witness ==
    /\ PrepareReturned
    /\ Len(df[1].rows) < Len(hist.calls.prepare[1].before.rows)
    /\ \E r \in 1..Len(df[1].rows) :
          At(df[1], df[1].rows[r], s_country_name) = StrC(Inconnu)

\* The key of a point, the key of a row, and their equality.
PointKey(p) == <<p.city, p.country, p.country_name, p.latitude, p.longitude>>
RowKey(d, row) == <<At(d, row, s_city), At(d, row, s_country), At(d, row, s_country_name),
                    At(d, row, s_latitude), At(d, row, s_longitude)>>
SameNumber(x, y) == x.a * y.b = y.a * x.b
SameKey(k1, k2) ==
    /\ k1[1] = k2[1] /\ k1[2] = k2[2] /\ k1[3] = k2[3]
    /\ SameNumber(k1[4], k2[4]) /\ SameNumber(k1[5], k2[5])

\* The sum of european_aqi over the rows of d numbered in S.
RECURSIVE SumOver(_, _)
SumOver(d, S) ==
    IF S = {} THEN Num(0, 1)
    ELSE LET r == CHOOSE r \in S : TRUE
             v == At(d, d.rows[r], s_european_aqi)
             rest == SumOver(d, S \ {r})
         IN  Num(v.a * rest.b + rest.a * v.b, v.b * rest.b)

\* m is the arithmetic mean of european_aqi over the rows of d numbered in S.
IsMeanOver(m, d, S) ==
    /\ S # {}
    /\ m.t = "num"
    /\ m.a * SumOver(d, S).b * Cardinality(S) = SumOver(d, S).a * m.b

\* C5: city_means_for_day returns one row per distinct (city, country,
\* country_name, latitude, longitude) of its clean single-day input: no key
\* twice, none missing, none invented; the row's european_aqi is the mean of
\* the AQI of exactly the input rows with that key, its label and color the
\* classification of that mean.
C5_CityMeans ==
    pc = "done" =>
        LET d == hist.calls.aggregate[1].before
            P == points[1]
            rowsOf(p) == {r \in 1..Len(d.rows) : SameKey(RowKey(d, d.rows[r]), PointKey(p))}
        IN  /\ \A i, j \in 1..Len(P) : SameKey(PointKey(P[i]), PointKey(P[j])) => i = j
            /\ \A r \in 1..Len(d.rows) : \E i \in 1..Len(P) : r \in rowsOf(P[i])
            /\ \A i \in 1..Len(P) :
                  /\ IsMeanOver(P[i].european_aqi, d, rowsOf(P[i]))
                  /\ P[i].label = LabelOfTier(TierOf(P[i].european_aqi))
                  /\ P[i].color = ColorOfTier(TierOf(P[i].european_aqi))

\* Two rows of one key with AQI 30 and 50 have given one point of mean 40
\* labelled Bon.
C5_Witness ==
    /\ pc = "done"
    /\ Len(points[1]) = 1
    /\ points[1][1].european_aqi.a = 40 * points[1][1].european_aqi.b
    /\ points[1][1].label = "Bon"
    /\ LET d == df_day[1]
       IN  /\ Len(d.rows) = 2
           /\ {At(d, d.rows[r], s_european_aqi) : r \in 1..2} = {Num(30, 1), Num(50, 1)}

\* C6: for the selected date D and country filter F, the points are built
\* only from clean rows of date D; with F empty every key of D appears; with
\* F non-empty every point's country_name is in F and every point is a point
\* of the unfiltered result for D, with the same mean.
C6_Filters ==
    pc = "done" =>
        LET clean == df[1]
            D == sel.date
            F == sel.countries
            P == points[1]
            dayRows == {r \in 1..Len(clean.rows) : At(clean, clean.rows[r], s_date) = D}
            rowsOf(p) == {r \in dayRows : SameKey(RowKey(clean, clean.rows[r]), PointKey(p))}
            unfiltered == city_means_for_day(day_rows(clean, D))
        IN  /\ \A i \in 1..Len(P) : IsMeanOver(P[i].european_aqi, clean, rowsOf(P[i]))
            /\ F = {} => \A r \in dayRows : \E i \in 1..Len(P) : r \in rowsOf(P[i])
            /\ F # {} => \A i \in 1..Len(P) :
                  /\ P[i].country_name.s \in F
                  /\ \E j \in 1..Len(unfiltered) : unfiltered[j] = P[i]

\* Rows of two dates are clean; a date with two countries is selected with
\* one of them as the filter, and fewer points than unfiltered are returned.
C6_Witness ==
    /\ pc = "done"
    /\ sel.countries # {}
    /\ Len(dates(df[1])) = 2
    /\ Len(points[1]) >= 1
    /\ Len(points[1]) < Len(city_means_for_day(day_rows(df[1], sel.date)))

\* C7: after normalize_columns, prepare and city_means_for_day each run, the
\* table passed in as the argument is unchanged: same column names, same
\* column set, same cells.
C7_ArgumentsUnchanged ==
    /\ hist.calls.normalize # None =>
          hist.calls.normalize[1].after = hist.calls.normalize[1].before
    /\ hist.calls.prepare # None =>
          hist.calls.prepare[1].after = hist.calls.prepare[1].before
    /\ hist.calls.aggregate # None =>
          hist.calls.aggregate[1].after = hist.calls.aggregate[1].before

\* C8: over the executions of one process the body of load_excel_local runs
\* at most once, and every call returns a table equal to the one first
\* loaded, whatever prepare did to the tables returned before.
C8_LoadOnce ==
    /\ reads <= 1
    /\ cache # None => (reads = 1 /\ cache = hist.first)
    /\ pc = "prepare" => df_raw = hist.first

\* A later execution has just loaded, after prepare returned in an earlier one.
C8_Witness ==
    /\ run >= 2
    /\ pc = "prepare"
    /\ hist.prepares >= 1
    /\ reads = 1
    /\ df_raw = hist.first

\* C9: country_name is a total function of the raw country value: a str
\* resolves by its trimmed, upper-cased code (the table's name, or the code
\* itself when the table lacks it), so codes differing only in case or
\* surrounding blanks resolve alike; anything else resolves to Inconnu.
C9_CountryName ==
    cn.done =>
        /\ cn.ra = NameOf(cn.a)
        /\ cn.rb = NameOf(cn.b)
        /\ (cn.a.t = "str" /\ cn.b.t = "str" /\ SameCode(cn.a.s, cn.b.s)) => cn.ra = cn.rb
        /\ cn.a.t # "str" => cn.ra = Inconnu
        /\ cn.a = StrC(<<"z", "z">>) => cn.ra = <<"Z", "Z">>

\* "Fr " and " fR" have both resolved to France.
C9_Witness ==
    /\ cn.done
    /\ cn.a = StrC(<<"F", "r", " ">>)
    /\ cn.b = StrC(<<" ", "f", "R">>)
    /\ cn.ra = <<"F", "r", "a", "n", "c", "e">>
    /\ cn.rb = cn.ra

\* The steps an execution has taken when it stands at each position.
StepsAt ==
    [start            |-> <<>>,
     load             |-> <<"check_file">>,
     stopped          |-> <<"check_file">>,
     prepare          |-> <<"check_file", "load">>,
     schema_error     |-> <<"check_file", "load", "prepare">>,
     select_date      |-> <<"check_file", "load", "prepare">>,
     select_countries |-> <<"check_file", "load", "prepare", "select_date">>,
     aggregate        |-> <<"check_file", "load", "prepare", "select_date",
                            "select_countries">>,
     done             |-> <<"check_file", "load", "prepare", "select_date",
                            "select_countries", "aggregate">>]

\* C10: an execution ends in exactly one of three ways, fixed by the order
\* of the checks: without the file it stops before load, prepare or
\* aggregation (no table is built); else, with a required column missing, it
\* stops at the schema error before day selection and aggregation; only else
\* is a point table produced.  No step runs twice in an execution: the steps
\* taken are those of the position, each once.
C10_Outcomes ==
    /\ pc \in DOMAIN StepsAt
    /\ hist.steps = StepsAt[pc]
    /\ pc \notin {"start", "stopped"} => file_exists
    /\ points # None <=> pc = "done"
    /\ error # None <=> pc = "schema_error"
    /\ pc = "stopped" =>
          /\ ~file_exists
          /\ df_raw = None /\ df = None /\ df_day = None /\ points = None
    /\ pc = "schema_error" =>
          /\ Required \ Range(df_raw[1].cols) # {}
          /\ df = None /\ df_day = None /\ points = None /\ sel = NoSelection
    /\ PrepareReturned =>
          Required \subseteq Range(hist.calls.prepare[1].before.cols)

\* The file is gone in a later execution of a process that loaded it before:
\* the execution stops with no table.
C10_Witness ==
    /\ pc = "stopped"
    /\ run >= 2
    /\ cache # None
    /\ df_raw = None
====
